---------------------------- MODULE Spec2Model ----------------------------
(***************************************************************************)
(* Model of alacritty/src/display/cursor.rs: conversion of a renderable    *)
(* cursor into a CursorRects (four optional rectangle slots plus a read    *)
(* index), the Iterator over it, and CursorRects::interpolate.             *)
(*                                                                         *)
(* Pixel quantities (f32 in the source) are modelled as exact integers;    *)
(* the thickness ratio is modelled in hundredths (15 stands for 0.15), so  *)
(* that f32::round is computed, not assumed.  Option<T> is modelled as a   *)
(* sequence of length 0 (None) or 1 (Some).                                *)
(*                                                                         *)
(* cursor.rs lines 31 and 45 are malformed in the file (a stray            *)
(* `match self.shape() {` and a match arm without its `_ =>` pattern);     *)
(* the model follows the well-formed statements of lines 32-46: the        *)
(* `let shape = ...` resolution and the dispatch whose last arm is the     *)
(* fallback.                                                               *)
(***************************************************************************)
EXTENDS Integers, Sequences, FiniteSets, TLC

VARIABLES sets, built, yielded, call, frames

vars == <<sets, built, yielded, call, frames>>

-----------------------------------------------------------------------------
(* Bounds of the model *)

MaxColumn == 2
MaxLine == 3
MaxFrames == 1

-----------------------------------------------------------------------------
(* Option<T> *)

None == <<>>
Some(v) == <<v>>
IsSome(o) == Len(o) = 1
Unwrap(o) == o[1]

(* alacritty_terminal::vte::ansi::CursorShape *)
CursorShape == {"Block", "Underline", "Beam", "HollowBlock", "Hidden"}

(* f32::max on integers *)
Max(a, b) == IF a >= b THEN a ELSE b

(* f32::round of the quotient num / den (den > 0): nearest integer, halves *)
(* rounded away from zero.                                                 *)
Round(num, den) ==
    IF num >= 0 THEN (2 * num + den) \div (2 * den)
                ELSE -((2 * (-num) + den) \div (2 * den))

(* The thickness ratio is held in hundredths. *)
RatioDen == 100

-----------------------------------------------------------------------------
(* RenderRect (renderer/rects.rs, not part of the excerpt) *)

new_cur(x, y, width, height, color, alpha) ==
    [x |-> x, y |-> y, width |-> width, height |-> height,
     color |-> color, alpha |-> alpha]

(* Easing of one attribute from a towards b.  factor is in halves         *)
(* (0, 1, 2 stand for 0, 0.5, 1); a stiffer spring shortens the step.     *)
FactorDen == 2
Ease(a, b, factor, spring) == a + ((b - a) * factor) \div (FactorDen * spring)

RenderRect_interpolate(mine, theirs, factor, spring) ==
    [x      |-> Ease(mine.x, theirs.x, factor, spring),
     y      |-> Ease(mine.y, theirs.y, factor, spring),
     width  |-> Ease(mine.width, theirs.width, factor, spring),
     height |-> Ease(mine.height, theirs.height, factor, spring),
     color  |-> Ease(mine.color, theirs.color, factor, spring),
     alpha  |-> Ease(mine.alpha, theirs.alpha, factor, spring)]

-----------------------------------------------------------------------------
(* CursorRects *)

CursorRects(rects, index) == [rects |-> rects, index |-> index]

(* #[derive(Default)] *)
Default == CursorRects(<<None, None, None, None>>, 0)

(* impl From<RenderRect> for CursorRects *)
from(rect) == CursorRects(<<Some(rect), None, None, None>>, 0)

(* beam with the width and height arguments of new_cur exchanged *)
beam_swapped(x, y, height, thickness, color) ==
    from(new_cur(x, y, height, thickness, color, 1))

(* Create an iterator yielding a single beam rect. *)
beam(x, y, height, thickness, color) ==
    from(new_cur(x, y, thickness, height, color, 1))

(* underline placed below the cell: thickness not subtracted *)
underline_below(x, y, width, height, thickness, color) ==
    from(new_cur(x, y + height, width, thickness, color, 1))

(* Create an iterator yielding a single underline rect. *)
underline(x, y, width, height, thickness, color) ==
    LET y2 == y + height - thickness
    IN  from(new_cur(x, y2, width, thickness, color, 1))

(* hollow with the slots in the order the lines are computed in: *)
(* top, left, bottom, right                                        *)
hollow_reordered(x, y, width, height, thickness, color) ==
    CursorRects(<<Some(new_cur(x, y, width, thickness, color, 1)),
                  Some(new_cur(x, y + thickness, thickness, height - 2 * thickness, color, 1)),
                  Some(new_cur(x, y + height - thickness, width, thickness, color, 1)),
                  Some(new_cur(x + width - thickness, y + thickness, thickness,
                               height - 2 * thickness, color, 1))>>, 0)

(* hollow with the right line placed after the cell: thickness not *)
(* subtracted from right_x                                         *)
hollow_right_outside(x, y, width, height, thickness, color) ==
    CursorRects(<<Some(new_cur(x, y, width, thickness, color, 1)),
                  Some(new_cur(x, y + height - thickness, width, thickness, color, 1)),
                  Some(new_cur(x, y + thickness, thickness, height - 2 * thickness, color, 1)),
                  Some(new_cur(x + width, y + thickness, thickness,
                               height - 2 * thickness, color, 1))>>, 0)

(* Create an iterator yielding a rect for each side of the hollow block. *)
hollow(x, y, width, height, thickness, color) ==
    LET top_line == new_cur(x, y, width, thickness, color, 1)
        vertical_y == y + thickness
        vertical_height == height - 2 * thickness
        left_line == new_cur(x, vertical_y, thickness, vertical_height, color, 1)
        bottom_y == y + height - thickness
        bottom_line == new_cur(x, bottom_y, width, thickness, color, 1)
        right_x == x + width - thickness
        right_line == new_cur(right_x, vertical_y, thickness, vertical_height, color, 1)
    IN  CursorRects(<<Some(top_line), Some(bottom_line),
                      Some(left_line), Some(right_line)>>, 0)

-----------------------------------------------------------------------------
(* IntoRects for RenderableCursor *)

(* let x = ...; let y = ...; (lines 19-20) *)
origin_x(a) == a.column * a.cell_width + a.padding_x
origin_y(a) == a.line * a.cell_height + a.padding_y

(* the wide flag ignored *)
full_width_single(a) == a.cell_width

(* if self.is_wide() { width *= 2. } (lines 22, 27-29) *)
full_width(a) == IF a.wide THEN a.cell_width * 2 ELSE a.cell_width

(* the thickness taken from the width after it is doubled *)
stroke_widened(a) == Max(Round(a.thickness * full_width(a), RatioDen), 1)

(* let thickness = (thickness * width).round().max(1.); (line 25, before *)
(* width is doubled)                                                     *)
stroke(a) == Max(Round(a.thickness * a.cell_width, RatioDen), 1)

(* an override that replaces every shape *)
resolve_always(shape, block_replace) ==
    IF block_replace = None THEN shape ELSE Unwrap(block_replace)

(* let shape = match block_replace { ... } (lines 32-40) *)
resolve(shape, block_replace) ==
    IF block_replace = None
    THEN shape
    ELSE IF shape \in {"Beam", "Underline", "HollowBlock"}
         THEN shape
         ELSE Unwrap(block_replace)

(* match shape { ... } (lines 41-46) *)
dispatch(shape, x, y, width, height, thickness, color) ==
    CASE shape = "Beam" -> beam(x, y, height, thickness, color)
      [] shape = "Underline" -> underline(x, y, width, height, thickness, color)
      [] shape = "HollowBlock" -> hollow(x, y, width, height, thickness, color)
      [] OTHER -> from(new_cur(x, y, width, height, color, 1))

(* fn rects(self, size_info, thickness, block_replace) -> CursorRects *)
rects(a) ==
    dispatch(resolve(a.shape, a.block_replace), origin_x(a), origin_y(a),
             full_width(a), a.cell_height, stroke(a), a.color)

-----------------------------------------------------------------------------
(* impl CursorRects *)

(* a rectangle without a target kept instead of dropped *)
slot_kept(mine, theirs, factor, spring) ==
    IF IsSome(mine)
    THEN IF IsSome(theirs)
         THEN Some(RenderRect_interpolate(Unwrap(mine), Unwrap(theirs), factor, spring))
         ELSE mine
    ELSE theirs

(* The per-slot match of interpolate (lines 59-65) *)
slot(mine, theirs, factor, spring) ==
    IF IsSome(mine)
    THEN IF IsSome(theirs)
         THEN Some(RenderRect_interpolate(Unwrap(mine), Unwrap(theirs), factor, spring))
         ELSE None
    ELSE theirs

(* the result built as a new CursorRects, its index at 0 *)
interpolate_rewound(self, other, factor, spring) ==
    CursorRects([i \in 1..4 |-> slot(self.rects[i], other.rects[i], factor, spring)], 0)

(* pub fn interpolate(&mut self, other: &Self, factor: f32, spring: f32) *)
interpolate(self, other, factor, spring) ==
    CursorRects([i \in 1..4 |-> slot(self.rects[i], other.rects[i], factor, spring)],
                self.index)

(* the slot copied out instead of taken *)
next_copied(self) ==
    IF self.index >= Len(self.rects)
    THEN [self |-> self, ret |-> None]
    ELSE [self |-> CursorRects(self.rects, self.index + 1),
          ret  |-> self.rects[self.index + 1]]

(* fn next(&mut self) -> Option<RenderRect>: the receiver afterwards and *)
(* the value returned.  Slot k of the source is position k + 1 here.     *)
next(self) ==
    IF self.index >= Len(self.rects)
    THEN [self |-> self, ret |-> None]
    ELSE [self |-> CursorRects([self.rects EXCEPT ![self.index + 1] = None],
                               self.index + 1),
          ret  |-> self.rects[self.index + 1]]

-----------------------------------------------------------------------------
(* Inputs *)

Who == {"current", "target"}

Shapes == CursorShape
Overrides == {None} \cup {Some(s) : s \in CursorShape}

(* Arguments of one rects() call: the cursor (point, shape, color, wide), *)
(* the size info and the two remaining parameters.                        *)
Args(columns, lines, shapes, colors, wides, cells, paddings, ratios, overrides) ==
    { [column |-> c, line |-> l, shape |-> s, color |-> k, wide |-> w,
       cell_width |-> cell[1], cell_height |-> cell[2],
       padding_x |-> pad[1], padding_y |-> pad[2],
       thickness |-> r, block_replace |-> o] :
        c \in columns, l \in lines, s \in shapes, k \in colors,
        w \in wides, cell \in cells, pad \in paddings, r \in ratios,
        o \in overrides }

(* Inputs of the geometry specification *)
Inputs ==
    Args(0..MaxColumn, 0..MaxLine, Shapes, {0}, BOOLEAN,
         { <<w, h>> : w \in {0, 1, 10}, h \in {0, 2, 20} },
         { <<0, 0>>, <<2, 3>> },
         {-25, 0, 15, 40, 100},
         Overrides)

(* Inputs of the frame specification: one cell size and cursor place; *)
(* Hidden is left out, it takes the same arm as Block                 *)
FrameInputs ==
    Args({MaxColumn}, {MaxLine}, Shapes \ {"Hidden"}, {0}, BOOLEAN,
         { <<10, 20>> }, { <<0, 0>> }, {15}, {None})

Factors == {1, 2}
Springs == {1, 2}

-----------------------------------------------------------------------------
(* State machine *)

NoCall == [op |-> "none"]

Init ==
    /\ sets = [w \in Who |-> Default]
    /\ built = [w \in Who |-> None]
    /\ yielded = [w \in Who |-> <<>>]
    /\ call = NoCall
    /\ frames = 0

(* sets[who] = cursor.rects(&size_info, thickness, block_replace) *)
Build(who, a) ==
    /\ sets' = [sets EXCEPT ![who] = rects(a)]
    /\ built' = [built EXCEPT ![who] = Some(a)]
    /\ yielded' = [yielded EXCEPT ![who] = <<>>]
    /\ call' = [op |-> "rects", who |-> who, args |-> a,
                shape |-> resolve(a.shape, a.block_replace),
                thickness |-> stroke(a)]
    /\ UNCHANGED frames

BuildCurrent == \E a \in FrameInputs : Build("current", a)
BuildTarget == \E a \in FrameInputs : Build("target", a)

(* sets[who].next(); call records the read index before the call and *)
(* the value returned.                                                *)
Take(who) ==
    LET r == next(sets[who])
    IN  /\ sets' = [sets EXCEPT ![who] = r.self]
        /\ yielded' = [yielded EXCEPT ![who] =
                         IF IsSome(r.ret) THEN Append(@, sets[who].index) ELSE @]
        /\ call' = [op |-> "next", who |-> who, index |-> sets[who].index,
                    ret |-> r.ret]
        /\ UNCHANGED <<built, frames>>

NextCurrent == Take("current")
NextTarget == Take("target")

(* sets.current.interpolate(&sets.target, factor, spring) *)
Interpolate ==
    /\ frames < MaxFrames
    /\ \E f \in Factors, s \in Springs :
         /\ sets' = [sets EXCEPT !["current"] = interpolate(@, sets["target"], f, s)]
         /\ call' = [op |-> "interpolate", who |-> "current",
                     factor |-> f, spring |-> s]
    /\ built' = [built EXCEPT !["current"] = None]
    /\ frames' = frames + 1
    /\ UNCHANGED yielded

Next ==
    \/ BuildCurrent
    \/ BuildTarget
    \/ NextCurrent
    \/ NextTarget
    \/ Interpolate

Spec == Init /\ [][Next]_vars

(* The geometry builder alone: the arguments are drawn at the start and  *)
(* rects() is applied to them.                                            *)
InitRects ==
    /\ sets = [w \in Who |-> Default]
    /\ built = [w \in Who |-> None]
    /\ yielded = [w \in Who |-> <<>>]
    /\ call \in { [op |-> "input", args |-> a] : a \in Inputs }
    /\ frames = 0

RectsOfInput ==
    /\ call.op = "input"
    /\ Build("current", call.args)

NextRects == RectsOfInput

SpecRects == InitRects /\ [][NextRects]_vars

-----------------------------------------------------------------------------
(* Properties of the geometry builder (checked under SpecRects) *)

Built == call.op = "rects"
Slot(i) == sets["current"].rects[i + 1]
OnlySlot0 ==
    /\ IsSome(Slot(0))
    /\ Slot(1) = None /\ Slot(2) = None /\ Slot(3) = None
    /\ sets["current"].index = 0
CellX == call.args.column * call.args.cell_width + call.args.padding_x
CellY == call.args.line * call.args.cell_height + call.args.padding_y
CellW == IF call.args.wide THEN 2 * call.args.cell_width ELSE call.args.cell_width
CellH == call.args.cell_height
Rect(x, y, w, h) ==
    [x |-> x, y |-> y, width |-> w, height |-> h,
     color |-> call.args.color, alpha |-> 1]
Scenario(shape, wide) ==
    /\ Built
    /\ call.shape = shape
    /\ call.args.wide = wide
    /\ call.args.cell_width = 10 /\ call.args.cell_height = 20
    /\ call.args.padding_x = 0 /\ call.args.padding_y = 0
    /\ call.args.thickness = 15
    /\ call.args.column = 2 /\ call.args.line = 3
Protected == {"Beam", "Underline", "HollowBlock"}

(* C1: the resolved shape is the descriptor's shape when no override is  *)
(* given or when the shape is Beam, Underline or HollowBlock, and is the *)
(* override for any other shape; (Block, HollowBlock) resolves to        *)
(* HollowBlock and is drawn with four rectangles, (Beam, Block) resolves *)
(* to Beam and is drawn as one rectangle of the stroke thickness.        *)
C1_ShapeResolution ==
    Built =>
        LET s == call.args.shape
            o == call.args.block_replace
        IN  /\ o = None => call.shape = s
            /\ (o # None /\ s \in Protected) => call.shape = s
            /\ (o # None /\ s \notin Protected) => call.shape = o[1]
            /\ (s = "Block" /\ o = <<"HollowBlock">>) =>
                   /\ call.shape = "HollowBlock"
                   /\ \A i \in 0..3 : IsSome(Slot(i))
            /\ (s = "Beam" /\ o = <<"Block">>) =>
                   /\ call.shape = "Beam"
                   /\ OnlySlot0
                   /\ Slot(0)[1].width = call.thickness

C1_Witness ==
    /\ Built
    /\ call.args.shape = "Block"
    /\ call.args.block_replace = <<"HollowBlock">>
    /\ call.shape = "HollowBlock"
    /\ IsSome(Slot(3))

(* Amended C4: when the thickness is at most the (possibly doubled) cell *)
(* width and less than half the cell height, a HollowBlock cursor yields *)
(* four rectangles of positive width and height whose bounding box is    *)
(* the cell rectangle and none of which reaches the cell's interior      *)
(* further than thickness from the border.                               *)
SetMin(S) == CHOOSE m \in S : \A n \in S : m <= n
SetMax(S) == CHOOSE m \in S : \A n \in S : m >= n
Strokes == { Slot(i)[1] : i \in 0..3 }
FourNonEmpty ==
    /\ \A i \in 0..3 : IsSome(Slot(i))
    /\ \A i \in 0..3 : Slot(i)[1].width > 0 /\ Slot(i)[1].height > 0
BoundingBoxIsCell ==
    /\ SetMin({ r.x : r \in Strokes }) = CellX
    /\ SetMin({ r.y : r \in Strokes }) = CellY
    /\ SetMax({ r.x + r.width : r \in Strokes }) = CellX + CellW
    /\ SetMax({ r.y + r.height : r \in Strokes }) = CellY + CellH
InteriorFree ==
    \A r \in Strokes :
        \/ r.x + r.width <= CellX + call.thickness
        \/ r.x >= CellX + CellW - call.thickness
        \/ r.y + r.height <= CellY + call.thickness
        \/ r.y >= CellY + CellH - call.thickness

C4_HollowAmended ==
    (/\ Built
     /\ call.shape = "HollowBlock"
     /\ call.thickness <= CellW
     /\ 2 * call.thickness < CellH)
    => (FourNonEmpty /\ BoundingBoxIsCell /\ InteriorFree)

C4_Witness ==
    /\ Built
    /\ call.shape = "HollowBlock"
    /\ call.args.wide
    /\ call.args.cell_width = 10 /\ call.args.cell_height = 20
    /\ call.thickness = 4
    /\ FourNonEmpty

(* C4 as stated: for all cell metrics, thickness ratios and wide flags a *)
(* HollowBlock cursor yields four non-empty rectangles whose bounding    *)
(* box is the cell rectangle and which leave the interior free.  It is   *)
(* stated here for cells of positive size and ratios from 0 to 1 only,   *)
(* a part of the cases it covers.                                        *)
C4_HollowAllMetrics ==
    (/\ Built
     /\ call.shape = "HollowBlock"
     /\ call.args.cell_width > 0 /\ call.args.cell_height > 0
     /\ call.args.thickness \in 0..100)
    => (FourNonEmpty /\ BoundingBoxIsCell /\ InteriorFree)

(* C5: the thickness is max(1, round(ratio * cell_width)) with the cell  *)
(* width taken before it is doubled: at least 1, equal to the rounded    *)
(* product when that is at least 1, halves rounded away from zero; the   *)
(* ratio 0.15 and cell width 10 give 2.                                  *)
Abs(n) == IF n < 0 THEN -n ELSE n
IsRounded(r, num, den) ==
    /\ 2 * Abs(den * r - num) <= den
    /\ 2 * Abs(den * r - num) = den => Abs(den * r) > Abs(num)

C5_Thickness ==
    Built =>
        LET num == call.args.thickness * call.args.cell_width
            far == Abs(num) \div 100 + 1
        IN  /\ call.thickness >= 1
            /\ \E r \in -far..far :
                   /\ IsRounded(r, num, 100)
                   /\ call.thickness = IF r >= 1 THEN r ELSE 1
            /\ (call.args.thickness = 15 /\ call.args.cell_width = 10)
                   => call.thickness = 2

C5_Witness ==
    /\ Built
    /\ call.args.wide
    /\ call.args.thickness = 15 /\ call.args.cell_width = 10
    /\ call.thickness = 2

(* C6: a HollowBlock fills slots 0..3 with top, bottom, left, right as   *)
(* given by the cell rectangle and the thickness; cell 10x20, padding 0, *)
(* ratio 0.15, column 2, line 3, not wide gives (20,60,10,2),            *)
(* (20,78,10,2), (20,62,2,16), (28,62,2,16).                             *)
C6_Hollow ==
    /\ (Built /\ call.shape = "HollowBlock") =>
          LET t == call.thickness
          IN  sets["current"] =
                [rects |-> << <<Rect(CellX, CellY, CellW, t)>>,
                              <<Rect(CellX, CellY + CellH - t, CellW, t)>>,
                              <<Rect(CellX, CellY + t, t, CellH - 2 * t)>>,
                              <<Rect(CellX + CellW - t, CellY + t, t, CellH - 2 * t)>> >>,
                 index |-> 0]
    /\ Scenario("HollowBlock", FALSE) =>
          sets["current"].rects =
              << <<Rect(20, 60, 10, 2)>>, <<Rect(20, 78, 10, 2)>>,
                 <<Rect(20, 62, 2, 16)>>, <<Rect(28, 62, 2, 16)>> >>

C6_Witness ==
    /\ Scenario("HollowBlock", FALSE)
    /\ Slot(3) = <<Rect(28, 62, 2, 16)>>

(* C7: a Beam fills slot 0 only, with (x, y, thickness, cell_height) at  *)
(* opacity 1, for both values of the wide flag; cell 10x20, padding 0,   *)
(* ratio 0.15, column 2, line 3 gives (20, 60, 2, 20).                   *)
C7_Beam ==
    /\ (Built /\ call.shape = "Beam") =>
          /\ OnlySlot0
          /\ Slot(0) = <<Rect(CellX, CellY, call.thickness, call.args.cell_height)>>
          /\ Slot(0)[1].alpha = 1
    /\ \A w \in BOOLEAN :
          Scenario("Beam", w) => Slot(0) = <<Rect(20, 60, 2, 20)>>

C7_Witness ==
    /\ Scenario("Beam", TRUE)
    /\ Slot(0)[1].width = 2
    /\ Slot(0)[1].height = 20

(* C8: an Underline fills slot 0 only, with (x, y + height - thickness,  *)
(* width, thickness), the width doubled exactly when wide, so that its   *)
(* bottom edge is the cell's; cell 10x20, padding 0, ratio 0.15, column  *)
(* 2, line 3, wide gives (20, 78, 20, 2).                                *)
C8_Underline ==
    /\ (Built /\ call.shape = "Underline") =>
          /\ OnlySlot0
          /\ Slot(0) = <<Rect(CellX, CellY + CellH - call.thickness,
                               CellW, call.thickness)>>
          /\ Slot(0)[1].y + Slot(0)[1].height = CellY + CellH
    /\ Scenario("Underline", TRUE) => Slot(0) = <<Rect(20, 78, 20, 2)>>

C8_Witness ==
    /\ Scenario("Underline", TRUE)
    /\ Slot(0)[1].y = 78
    /\ Slot(0)[1].width = 20

(* C9: every other resolved shape fills slot 0 only, with the full cell  *)
(* (x, y, width, cell_height) at opacity 1, the width being the cell     *)
(* width, or twice the cell width when wide.                             *)
C9_Block ==
    (Built /\ call.shape \notin Protected) =>
        /\ OnlySlot0
        /\ Slot(0) = <<Rect(CellX, CellY, CellW, CellH)>>
        /\ Slot(0)[1].alpha = 1
        /\ ~call.args.wide => Slot(0)[1].width = call.args.cell_width
        /\ call.args.wide => Slot(0)[1].width = 2 * call.args.cell_width

C9_Witness ==
    /\ Built
    /\ call.shape = "Hidden"
    /\ call.args.wide
    /\ call.args.cell_width = 10
    /\ Slot(0)[1].width = 20
    /\ Slot(1) = None

-----------------------------------------------------------------------------
(* Properties of interpolate and next (checked under Spec) *)

Populated(set) == { i \in 1..4 : IsSome(set.rects[i]) }
Increasing(seq) == \A i \in 1..Len(seq) : \A j \in 1..Len(seq) : i < j => seq[i] < seq[j]

(* C2: interpolate gives every slot, independently of the other slots:   *)
(* the interpolation of A towards B for Some(A) and Some(B), None for    *)
(* Some(A) and None, and the target's slot unmodified for None.          *)
C2_SlotRule ==
    [][call'.op = "interpolate" =>
        \A i \in 1..4 :
            LET mine == sets["current"].rects[i]
                theirs == sets["target"].rects[i]
                result == sets'["current"].rects[i]
            IN  /\ (mine # <<>> /\ theirs # <<>>) =>
                      result = <<RenderRect_interpolate(mine[1], theirs[1],
                                                        call'.factor, call'.spring)>>
                /\ (mine # <<>> /\ theirs = <<>>) => result = <<>>
                /\ mine = <<>> => result = theirs]_vars

(* after an interpolate with factor 0.5: slot 0 eased (it is not the     *)
(* target's rectangle) and slot 3 the target's rectangle                 *)
C2_Witness ==
    /\ call.op = "interpolate"
    /\ call.factor = 1
    /\ IsSome(sets["current"].rects[1])
    /\ IsSome(sets["target"].rects[1])
    /\ sets["current"].rects[1] # sets["target"].rects[1]
    /\ IsSome(sets["current"].rects[4])
    /\ sets["current"].rects[4] = sets["target"].rects[4]

(* C3: the read index never exceeds 4; rectangles are returned in        *)
(* increasing slot order, none twice, at most 4; a slot that has been    *)
(* read is empty afterwards; a set fresh from rects() returns its 1      *)
(* rectangle, or its 4 rectangles in slot order, and then the end on     *)
(* every later call.                                                     *)
C3_OneShot ==
    \A w \in Who :
        /\ sets[w].index \in 0..4
        /\ Increasing(yielded[w])
        /\ Len(yielded[w]) <= 4
        /\ \A i \in 1..Len(yielded[w]) : yielded[w][i] < sets[w].index
        /\ (call.op = "next" /\ call.who = w) =>
              /\ call.index < 4 =>
                    /\ sets[w].index = call.index + 1
                    /\ sets[w].rects[call.index + 1] = None
                    /\ call.ret # <<>> =>
                          yielded[w][Len(yielded[w])] = call.index
              /\ call.index >= 4 => (call.ret = <<>> /\ sets[w].index = 4)
        /\ built[w] # <<>> =>
              LET a == built[w][1]
                  n == IF (a.shape = "HollowBlock") \/
                          (a.block_replace = <<"HollowBlock">>
                           /\ a.shape \notin Protected)
                       THEN 4 ELSE 1
                  k == IF sets[w].index < n THEN sets[w].index ELSE n
              IN  /\ yielded[w] = [i \in 1..k |-> i - 1]
                  /\ Populated(sets[w]) = (sets[w].index + 1)..n
                  /\ (call.op = "next" /\ call.who = w) =>
                         (call.ret # <<>>) = (call.index < n)

C3_Witness ==
    /\ call.op = "next"
    /\ call.index = 4
    /\ call.ret = None
    /\ built[call.who] # <<>>
    /\ yielded[call.who] = <<0, 1, 2, 3>>

(* C10: interpolate leaves the target and the current set's read index   *)
(* unchanged; afterwards the populated slots of the current set are      *)
(* those of the target; next on the current set reads at the index it    *)
(* had and not the slots before it.                                      *)
C10_Frame ==
    /\ [][call'.op = "interpolate" =>
            /\ sets'["target"] = sets["target"]
            /\ sets'["current"].index = sets["current"].index
            /\ yielded' = yielded
            /\ Populated(sets'["current"]) = Populated(sets["target"])]_vars
    /\ [][(call'.op = "next" /\ call'.who = "current") =>
            /\ call'.index = sets["current"].index
            /\ call'.ret = IF sets["current"].index < 4
                            THEN sets["current"].rects[sets["current"].index + 1]
                            ELSE <<>>
            /\ \A i \in 1..sets["current"].index :
                   sets'["current"].rects[i] = sets["current"].rects[i]]_vars

(* a rectangle placed by interpolate before the read index, and left     *)
(* there by a later next that ended the iteration                        *)
C10_Witness ==
    /\ frames > 0
    /\ call.op = "next" /\ call.who = "current"
    /\ sets["current"].index = 4
    /\ IsSome(sets["current"].rects[1])
    /\ sets["target"].index > 0

=============================================================================
